---------------------------- MODULE Spec2Model ----------------------------
(***************************************************************************)
(* A model of UM/Math/Polygon.py (class Polygon): project, mirror,        *)
(* intersectsPolygon, the manual getConvexHull, getMinkowskiSum and        *)
(* getMinkowskiHull.                                                       *)
(*                                                                         *)
(* Numbers.  A polygon's points are pairs <<x, y>> of integers, held in    *)
(* floating-point arrays; every sum and product the model takes of them    *)
(* stays far below 2^53, so binary64 arithmetic on them is exact and is    *)
(* modelled by integer arithmetic.  Two things are not exact and are       *)
(* modelled as what they do:                                               *)
(*   - numpy.array(..., numpy.float32) (line 170) rounds every coordinate  *)
(*     to 24 significant bits: operator F32;                               *)
(*   - normal /= numpy.linalg.norm(normal) (lines 52, 88, 110) divides by  *)
(*     a square root.  A vector divided by a norm is kept as a triple      *)
(*     <<x, y, d2>> that denotes (x, y) / sqrt(d2); d2 = 0 is the vector   *)
(*     (NaN, NaN) that 0.0 / 0.0 yields.  Comparisons of such values are   *)
(*     decided exactly (by squares), i.e. in real arithmetic, and every    *)
(*     comparison with a NaN is false, as in IEEE 754.                     *)
(* In the specification of the binary operations the coordinates are       *)
(* counted in multiples of the state variable unit: the polygon the        *)
(* program holds is unit * selfPts.  Normalisation cancels the unit, sums  *)
(* and projections are linear in it, so it only shows where the code       *)
(* compares a length with an absolute number (retSize, line 79).           *)
(***************************************************************************)
EXTENDS Integers, Sequences, FiniteSets, TLC

VARIABLES
    selfPts,    \* self._points, the receiver's point array
    otherPts,   \* other._points, the argument polygon's point array
    unit,       \* the length one coordinate step stands for
    arg,        \* mirror's arguments <<point_on_axis, axis_direction>>
    pc,         \* which call has returned ("ready": none yet)
    ret,        \* what the last call returned
    prev        \* what the call before it returned

vars == <<selfPts, otherPts, unit, arg, pc, ret, prev>>

\* ------------------------------------------------------------------ bounds
MaxCoord == 2
MaxOtherCoord == 1
MaxLen == 3
MaxHullLen == 4
MaxMinkCoord == 1
MaxMinkLen == 2

\* ------------------------------------------------------- program constants
\* retSize = 10000000.0
retSizeInit == 10000000
\* numpy.float32 has a 24-bit significand
F32Bits == 24

\* ----------------------------------------------------------------- helpers
RECURSIVE Pow2(_)
Pow2(k) == IF k = 0 THEN 1 ELSE 2 * Pow2(k - 1)

Abs(a) == IF a < 0 THEN -a ELSE a

SeqsUpTo(S, lo, hi) == UNION {[1..k -> S] : k \in lo..hi}

Range(s) == {s[i] : i \in 1..Len(s)}

Reverse(s) == [i \in 1..Len(s) |-> s[Len(s) + 1 - i]]

\* What a call returns: None, a tuple, a Polygon, or an exception.
None == [kind |-> "None", val |-> <<>>]
Vector(v) == [kind |-> "vector", val |-> v]
PolygonOf(pts) == [kind |-> "Polygon", val |-> pts]
Raise(what) == [kind |-> "raise", val |-> <<what>>]
NoCall == [kind |-> "nothing", val |-> <<>>]

\* ------------------------------------------------------------ getConvexHull
\* The spacing of float32 values at magnitude a (1 below 2^24).
RECURSIVE Ulp32(_)
Ulp32(a) == IF a < Pow2(F32Bits) THEN 1 ELSE 2 * Ulp32(a \div 2)

\* An integer-valued double converted to float32: round to nearest, ties to
\* the even significand.
F32(x) ==
    LET a == Abs(x)
        u == Ulp32(a)
        lo == (a \div u) * u
        r == a - lo
        up == IF 2 * r > u THEN TRUE
              ELSE IF 2 * r < u THEN FALSE
              ELSE (a \div u) % 2 = 1
        m == IF up THEN lo + u ELSE lo
    IN IF x < 0 THEN -m ELSE m

\* numpy.array(points, numpy.float32)
F32Array(points) == [i \in 1..Len(points) |-> <<F32(points[i][1]), F32(points[i][2])>>]

\* unique = {}; for p in self._points: unique[p[0], p[1]] = 1;
\* list(unique.keys()): the distinct points, in order of first appearance.
RECURSIVE UniqueKeys(_)
UniqueKeys(pts) ==
    IF pts = <<>> THEN <<>>
    ELSE LET front == UniqueKeys(SubSeq(pts, 1, Len(pts) - 1))
             p == pts[Len(pts)]
         IN IF p \in Range(front) THEN front ELSE Append(front, p)

\* Python's order on tuples.
TupleLess(p, q) == p[1] < q[1] \/ (p[1] = q[1] /\ p[2] < q[2])

RECURSIVE InsertSorted(_, _)
InsertSorted(p, s) ==
    IF s = <<>> THEN <<p>>
    ELSE IF TupleLess(p, Head(s)) THEN <<p>> \o s
    ELSE <<Head(s)>> \o InsertSorted(p, Tail(s))

\* A hull that forgets points.sort() (mutant of SortPoints).
SortPointsOmitted(points) == points

\* points.sort()
RECURSIVE SortPoints(_)
SortPoints(points) ==
    IF points = <<>> THEN <<>>
    ELSE InsertSorted(points[Len(points)], SortPoints(SubSeq(points, 1, Len(points) - 1)))

\* _isRightTurn(p, q, r)
IsRightTurn(p, q, r) ==
    LET sum1 == q[1] * r[2] + p[1] * q[2] + r[1] * p[2]
        sum2 == q[1] * p[2] + r[1] * q[2] + p[1] * r[2]
    IN sum1 - sum2 < 0

\* while len(upper) > 2 and not self._isRightTurn(*upper[-3:]): del upper[-2]
RECURSIVE PopLeftTurns(_)
PopLeftTurns(chain) ==
    LET k == Len(chain) IN
    IF k > 2 /\ ~IsRightTurn(chain[k - 2], chain[k - 1], chain[k])
    THEN PopLeftTurns(SubSeq(chain, 1, k - 2) \o <<chain[k]>>)
    ELSE chain

\* upper = [points[0], points[1]]; for p in points[2:]: upper.append(p); while ...
RECURSIVE ExtendChain(_, _, _)
ExtendChain(chain, points, i) ==
    IF i > Len(points) THEN chain
    ELSE ExtendChain(PopLeftTurns(Append(chain, points[i])), points, i + 1)

BuildChain(points) == ExtendChain(<<points[1], points[2]>>, points, 3)

\* The manual getConvexHull: the points of the Polygon it returns.
GetConvexHull(pts) ==
    LET points == SortPoints(UniqueKeys(pts)) IN
    IF Len(points) < 1 THEN <<>>
    ELSE IF Len(points) < 2 THEN F32Array(points)
    ELSE LET upper == BuildChain(points)
             lower == BuildChain(Reverse(points))
         IN F32Array(upper \o SubSeq(lower, 2, Len(lower) - 1))

\* --------------------------------------------------------- getMinkowskiSum
\* The arrays a call works on: the two operands' and the one it allocates.
Memory(a, b, fresh) == [self |-> a, other |-> b, local |-> fresh]

\* numpy.zeros((k, 2))
Zeros(k) == [i \in 1..k |-> <<0, 0>>]

\* The array line 180 assigns into: points, allocated by line 177.
SumTarget == "local"

\* The index computed with the wrong polygon's length (mutant of SumIndex).
SumIndexBySelf(n, m, lenSelf, lenOther) == n * lenSelf + m

\* The index line 180 assigns at (from 0).
SumIndex(n, m, lenSelf, lenOther) == n * lenOther + m

\* points[...] = self._points[n] + other._points[m]
SumStore(mem, n, m) ==
    LET p == mem.self[n + 1]
        q == mem.other[m + 1]
        k == SumIndex(n, m, Len(mem.self), Len(mem.other)) + 1
    IN [mem EXCEPT ![SumTarget] =
           [i \in 1..Len(@) |-> IF i = k THEN <<p[1] + q[1], p[2] + q[2]>> ELSE @[i]]]

\* for n in range(0, len(self._points)): for m in range(0, len(other._points)): ...
RECURSIVE SumLoop(_, _, _)
SumLoop(mem, n, m) ==
    IF n >= Len(mem.self) THEN mem
    ELSE IF m >= Len(mem.other) THEN SumLoop(mem, n + 1, 0)
    ELSE SumLoop(SumStore(mem, n, m), n, m + 1)

\* getMinkowskiSum: the memory when it returns; the Polygon returned holds local.
GetMinkowskiSum(a, b) == SumLoop(Memory(a, b, Zeros(Len(a) * Len(b))), 0, 0)

\* getMinkowskiHull: sum = self.getMinkowskiSum(other); return sum.getConvexHull()
GetMinkowskiHull(a, b) == GetConvexHull(GetMinkowskiSum(a, b).local)

\* ------------------------------------------------------- intersectsPolygon
\* normal taken as a view of the vertex itself (mutant of NormalBuffer).
NormalBufferAliased(arr) == arr

\* The array normal is a view of: (p1 - p0) is a new array, [::-1] a view of it.
NormalBuffer(arr) == "local"

\* normal = (p1 - p0)[::-1]; normal[1] = -normal[1]; normal /= norm(normal):
\* the value of normal for the edge into vertex n (from 0; vertex -1 is the
\* last), as <<x, y, d2>> = (x, y) / sqrt(d2).
EdgeNormal(pts, n) ==
    LET p0 == pts[IF n = 0 THEN Len(pts) ELSE n]
        p1 == pts[n + 1]
        ex == p1[1] - p0[1]
        ey == p1[2] - p0[2]
    IN <<ey, -ex, ex * ex + ey * ey>>

\* The memory after lines 86-88 (104-110): both writes go through the view.
StoreNormal(mem, arr, n) ==
    LET normal == EdgeNormal(mem[arr], n) IN
    IF NormalBuffer(arr) = "local" THEN [mem EXCEPT !.local = normal]
    ELSE [mem EXCEPT ![arr][n + 1] = normal, !.local = normal]

\* numpy.dot(normal, point), times sqrt(d2)
Dot(normal, p) == normal[1] * p[1] + normal[2] * p[2]

\* Python's min and max of two numbers
Min2(a, b) == IF b < a THEN b ELSE a
Max2(a, b) == IF b > a THEN b ELSE a

RECURSIVE ProjectLoop(_, _, _, _)
ProjectLoop(pts, normal, i, acc) ==
    IF i > Len(pts) THEN acc
    ELSE LET projection == Dot(normal, pts[i]) IN
         ProjectLoop(pts, normal, i + 1,
                     [acc EXCEPT !.min = Min2(@, projection), !.max = Max2(@, projection)])

\* project(normal): (projection_min, projection_max), each times sqrt(d2);
\* d2 = 0 says both are NaN.
Project(pts, normal) ==
    LET first == Dot(normal, pts[1]) IN
    ProjectLoop(pts, normal, 1, [min |-> first, max |-> first, d2 |-> normal[3]])

\* a > b for two projections on the same normal
Greater(a, b, d2) == d2 # 0 /\ a > b

\* size <= retSize: the last of equal axes wins (mutant of SizeLess).
SizeLessOrEqual(size, retSize, u) ==
    IF size.d2 = 0 THEN FALSE
    ELSE IF retSize.abs
    THEN IF u * size.raw <= retSize.raw THEN TRUE
         ELSE IF u % retSize.raw = 0
         THEN LET k == (u \div retSize.raw) * size.raw IN k * k <= size.d2
         ELSE (u * size.raw) * (u * size.raw) <= retSize.raw * retSize.raw * size.d2
    ELSE size.raw * size.raw * retSize.d2 <= retSize.raw * retSize.raw * size.d2

\* size < retSize.  A size is raw / sqrt(d2) units; retSize is that, or (abs)
\* the absolute number it starts at.  Sizes compared here are never negative.
SizeLess(size, retSize, u) ==
    IF size.d2 = 0 THEN FALSE
    ELSE IF retSize.abs
    THEN IF u * size.raw < retSize.raw THEN TRUE
         ELSE IF u % retSize.raw = 0
         THEN LET k == (u \div retSize.raw) * size.raw IN k * k < size.d2
         ELSE (u * size.raw) * (u * size.raw) < retSize.raw * retSize.raw * size.d2
    ELSE size.raw * size.raw * retSize.d2 < retSize.raw * retSize.raw * size.d2

\* normal * -size or normal * size, as <<x, y, d>> = (x / d, y / d) units
Scaled(normal, raw) == <<normal[1] * raw, normal[2] * raw, normal[3]>>

\* One pass of either loop body (lines 83-102, 105-124) over the state of
\* the call: st.returned says a return None was taken.
AxisStep(st, arr, n, u) ==
    LET mem == StoreNormal(st.mem, arr, n)
        normal == mem.local
        a == Project(mem.self, normal)
        b == Project(mem.other, normal)
        size == [abs |-> FALSE, raw |-> Min2(a.max, b.max) - Max2(a.min, b.min),
                 d2 |-> normal[3]]
    IN IF Greater(a.min, b.max, normal[3]) \/ Greater(b.min, a.max, normal[3])
       THEN [st EXCEPT !.mem = mem, !.returned = TRUE]
       ELSE IF SizeLess(size, st.retSize, u)
       THEN [st EXCEPT !.mem = mem, !.retSize = size,
                       !.ret = IF a.min < b.min THEN Vector(Scaled(normal, -size.raw))
                               ELSE Vector(Scaled(normal, size.raw))]
       ELSE [st EXCEPT !.mem = mem]

RECURSIVE AxisLoop(_, _, _, _)
AxisLoop(st, arr, n, u) ==
    IF st.returned \/ n >= Len(st.mem[arr]) THEN st
    ELSE AxisLoop(AxisStep(st, arr, n, u), arr, n + 1, u)

\* intersectsPolygon: the state of the call when it returns.
IntersectsPolygon(a, b, u) ==
    LET st0 == [mem |-> Memory(a, b, <<0, 0, 0>>), returned |-> FALSE, ret |-> None,
                retSize |-> [abs |-> TRUE, raw |-> retSizeInit, d2 |-> 1]]
        st1 == AxisLoop(st0, "self", 0, u)
        st2 == AxisLoop(st1, "other", 0, u)
    IN IF st2.returned THEN [st2 EXCEPT !.ret = None] ELSE st2

\* ------------------------------------------------------------------ mirror
\* if axis_direction == [0,0,0]: what the test can come to.  A list equals
\* [0,0,0] when it is [0,0,0].  An array of three elements compares
\* elementwise and the truth value of the resulting array raises; an array
\* of two cannot be broadcast against three, which numpy answers with False
\* (and a warning) or with an exception, depending on its version.
ZeroTest(dir) ==
    IF dir.kind = "list" THEN {IF dir.v = <<0, 0, 0>> THEN "true" ELSE "false"}
    ELSE IF Len(dir.v) = 3 THEN {"raise"}
    ELSE {"false", "raise"}

\* axis_direction /= numpy.linalg.norm(axis_direction), as <<x, y, d2>>
Normalised(v) == <<v[1], v[2], v[1] * v[1] + v[2] * v[2]>>

\* One row of ((point_matrix - point_on_axis) * reflection + point_on_axis),
\* reflection = 2 * l^T * l - I for the normalised direction l; a row of NaN
\* is <<0, 0, 0>>.
Reflect(p, c, l) ==
    IF l[3] = 0 THEN <<0, 0, 0>>
    ELSE LET vx == p[1] - c[1]
             vy == p[2] - c[2]
             s == 2 * (vx * l[1] + vy * l[2])
         IN <<(s * l[1] - l[3] * vx) \div l[3] + c[1],
              (s * l[2] - l[3] * vy) \div l[3] + c[2]>>

\* mirror(point_on_axis, axis_direction): the outcomes, each the receiver's
\* points after the call and what the call came to.
Mirror(pts, c, dir) ==
    {IF t = "raise" THEN [self |-> pts, ret |-> Raise("ValueError")]
     ELSE IF t = "true" THEN [self |-> pts, ret |-> None]
     ELSE IF Len(dir.v) # 2 THEN [self |-> pts, ret |-> Raise("ValueError")]
     ELSE [self |-> [i \in 1..Len(pts) |-> Reflect(pts[i], c, Normalised(dir.v))],
           ret |-> None]
     : t \in ZeroTest(dir)}

\* ------------------------------------------------------------------ inputs
Grid == (0..MaxCoord) \X (0..MaxCoord)

Polys == SeqsUpTo(Grid, 1, MaxLen)

OtherPolys == SeqsUpTo((0..MaxOtherCoord) \X (0..MaxOtherCoord), 1, MaxLen)

\* Abscissae on both sides of 2^24, where float32 stops holding every integer.
WideXs == {Pow2(F32Bits - 1), Pow2(F32Bits) + 1}

HullPolys == SeqsUpTo(Grid \cup (WideXs \X (0..MaxCoord)), 0, MaxHullLen)

\* Abscissae whose sums pass 2^24.
MinkXs == (0..MaxMinkCoord) \cup {Pow2(F32Bits - 1), Pow2(F32Bits - 1) + 1}

MinkPolys == SeqsUpTo(MinkXs \X (0..MaxMinkCoord), 1, MaxMinkLen)

\* axis_direction: a list or an array, of two or three numbers
Directions ==
    [kind : {"list", "ndarray"},
     v : {<<0, 0>>, <<0, 0, 0>>, <<1, 0>>, <<0, 1>>, <<0, -2>>, <<1, 0, 0>>}]

\* One coordinate step: 1, or twice the number retSize starts at.
Units == {1, 2 * retSizeInit}

\* ------------------------------------------- the binary operations' calls
InitBinary ==
    /\ selfPts \in Polys
    /\ otherPts \in OtherPolys
    /\ unit \in Units
    /\ arg = <<>>
    /\ pc = "ready"
    /\ ret = NoCall
    /\ prev = NoCall

\* ret = self.intersectsPolygon(other)
IntersectsPolygonCall ==
    /\ pc = "ready"
    /\ LET st == IntersectsPolygon(selfPts, otherPts, unit) IN
       /\ selfPts' = st.mem.self
       /\ otherPts' = st.mem.other
       /\ ret' = st.ret
    /\ pc' = "intersectsPolygon"
    /\ UNCHANGED <<unit, arg, prev>>

\* ret = self.getMinkowskiSum(other)
GetMinkowskiSumCall ==
    /\ pc = "ready"
    /\ LET mem == GetMinkowskiSum(selfPts, otherPts) IN
       /\ selfPts' = mem.self
       /\ otherPts' = mem.other
       /\ ret' = PolygonOf(mem.local)
    /\ pc' = "getMinkowskiSum"
    /\ UNCHANGED <<unit, arg, prev>>

NextBinary == IntersectsPolygonCall \/ GetMinkowskiSumCall

SpecBinary == InitBinary /\ [][NextBinary]_vars

\* ------------------------------------------------- getConvexHull's calls
InitHull ==
    /\ selfPts \in HullPolys
    /\ otherPts = <<>>
    /\ unit = 1
    /\ arg = <<>>
    /\ pc = "ready"
    /\ ret = NoCall
    /\ prev = NoCall

\* ret = self.getConvexHull()
GetConvexHullCall ==
    /\ pc = "ready"
    /\ ret' = PolygonOf(GetConvexHull(selfPts))
    /\ pc' = "getConvexHull"
    /\ UNCHANGED <<selfPts, otherPts, unit, arg, prev>>

\* ret = ret.getConvexHull(): the hull of the Polygon the first call returned
GetConvexHullAgain ==
    /\ pc = "getConvexHull"
    /\ prev' = ret
    /\ ret' = PolygonOf(GetConvexHull(ret.val))
    /\ pc' = "hullOfHull"
    /\ UNCHANGED <<selfPts, otherPts, unit, arg>>

NextHull == GetConvexHullCall \/ GetConvexHullAgain

SpecHull == InitHull /\ [][NextHull]_vars

\* ---------------------------------------------- getMinkowskiHull's calls
InitMinkHull ==
    /\ selfPts \in MinkPolys
    /\ otherPts \in MinkPolys
    /\ unit = 1
    /\ arg = <<>>
    /\ pc = "ready"
    /\ ret = NoCall
    /\ prev = NoCall

\* ret = self.getMinkowskiHull(other)
GetMinkowskiHullCall ==
    /\ pc = "ready"
    /\ ret' = PolygonOf(GetMinkowskiHull(selfPts, otherPts))
    /\ pc' = "getMinkowskiHull"
    /\ UNCHANGED <<selfPts, otherPts, unit, arg, prev>>

\* ret = other.getMinkowskiHull(self)
GetMinkowskiHullSwapped ==
    /\ pc = "getMinkowskiHull"
    /\ prev' = ret
    /\ ret' = PolygonOf(GetMinkowskiHull(otherPts, selfPts))
    /\ pc' = "swappedMinkowskiHull"
    /\ UNCHANGED <<selfPts, otherPts, unit, arg>>

NextMinkHull == GetMinkowskiHullCall \/ GetMinkowskiHullSwapped

SpecMinkHull == InitMinkHull /\ [][NextMinkHull]_vars

\* --------------------------------------------------------- mirror's calls
InitMirror ==
    /\ selfPts \in Polys
    /\ otherPts = <<>>
    /\ unit = 1
    /\ arg \in [point : Grid, dir : Directions]
    /\ pc = "ready"
    /\ ret = NoCall
    /\ prev = NoCall

\* self.mirror(point_on_axis, axis_direction)
MirrorCall ==
    /\ pc = "ready"
    /\ \E out \in Mirror(selfPts, arg.point, arg.dir) :
          /\ selfPts' = out.self
          /\ ret' = out.ret
    /\ pc' = "mirror"
    /\ UNCHANGED <<otherPts, unit, arg, prev>>

NextMirror == MirrorCall

SpecMirror == InitMirror /\ [][NextMirror]_vars

\* ================================================================= claims
\* Geometry the claims are stated with.
Cross(a, b, c) == (b[1] - a[1]) * (c[2] - a[2]) - (b[2] - a[2]) * (c[1] - a[1])

\* p lies on the closed segment from a to b
OnSegment(p, a, b) ==
    /\ Cross(a, b, p) = 0
    /\ (a[1] <= p[1] /\ p[1] <= b[1]) \/ (b[1] <= p[1] /\ p[1] <= a[1])
    /\ (a[2] <= p[2] /\ p[2] <= b[2]) \/ (b[2] <= p[2] /\ p[2] <= a[2])

\* p lies in the closed triangle a, b, c
InTriangle(p, a, b, c) ==
    /\ Cross(a, b, c) # 0
    /\ \/ Cross(a, b, p) >= 0 /\ Cross(b, c, p) >= 0 /\ Cross(c, a, p) >= 0
       \/ Cross(a, b, p) <= 0 /\ Cross(b, c, p) <= 0 /\ Cross(c, a, p) <= 0

\* p lies in the convex hull of the points V
InConvexHullOf(p, V) ==
    \/ \E a \in V, b \in V : OnSegment(p, a, b)
    \/ \E a \in V, b \in V, c \in V : InTriangle(p, a, b, c)

\* The extreme points of S: those outside the convex hull of the others.
ExtremePoints(S) == {p \in S : ~InConvexHullOf(p, S \ {p})}

ThreeNonCollinear(S) == \E a \in S, b \in S, c \in S : Cross(a, b, c) # 0

\* A strictly convex polygon: every vertex turns the same way.
IsConvex(pts) ==
    LET k == Len(pts)
        turn(i) == Cross(pts[i], pts[(i % k) + 1], pts[((i + 1) % k) + 1])
    IN /\ k >= 3
       /\ \/ \A i \in 1..k : turn(i) > 0
          \/ \A i \in 1..k : turn(i) < 0

\* Two cyclically consecutive vertices are equal.
HasZeroEdge(pts) == \E i \in 1..Len(pts) : pts[i] = pts[IF i = 1 THEN Len(pts) ELSE i - 1]

\* The axes intersectsPolygon tests, in order: self's edges, then other's.
NumAxes == Len(selfPts) + Len(otherPts)
TestedAxis(k) ==
    IF k <= Len(selfPts) THEN EdgeNormal(selfPts, k - 1)
    ELSE EdgeNormal(otherPts, k - Len(selfPts) - 1)
ProjSelf(k) == Project(selfPts, TestedAxis(k))
ProjOther(k) == Project(otherPts, TestedAxis(k))
IsNumber(k) == TestedAxis(k)[3] # 0
SeparatedOn(k) ==
    /\ IsNumber(k)
    /\ \/ ProjSelf(k).min > ProjOther(k).max
       \/ ProjOther(k).min > ProjSelf(k).max
\* min(aMax, bMax) - max(aMin, bMin), times sqrt(d2)
OverlapRaw(k) ==
    (IF ProjSelf(k).max < ProjOther(k).max THEN ProjSelf(k).max ELSE ProjOther(k).max)
    - (IF ProjSelf(k).min > ProjOther(k).min THEN ProjSelf(k).min ELSE ProjOther(k).min)
\* the overlap on axis j is smaller than that on axis k (neither negative)
OverlapLess(j, k) ==
    /\ IsNumber(j) /\ IsNumber(k)
    /\ OverlapRaw(j) * OverlapRaw(j) * TestedAxis(k)[3]
          < OverlapRaw(k) * OverlapRaw(k) * TestedAxis(j)[3]
\* axis k has the smallest overlap, and is the first that has it
IsWinner(k) ==
    /\ IsNumber(k)
    /\ \A j \in 1..NumAxes : ~OverlapLess(j, k)
    /\ \A j \in 1..(k - 1) : IsNumber(j) => OverlapLess(k, j)
\* (x / d, y / d) = -overlap * axis or +overlap * axis, as the claim has it
IsMTVOn(v, k) ==
    LET n == TestedAxis(k)
        s == IF ProjSelf(k).min < ProjOther(k).min THEN -OverlapRaw(k) ELSE OverlapRaw(k)
    IN /\ v[3] > 0
       /\ v[1] * n[3] = s * n[1] * v[3]
       /\ v[2] * n[3] = s * n[2] * v[3]
       /\ (v[1] * v[1] + v[2] * v[2]) * n[3] = OverlapRaw(k) * OverlapRaw(k) * v[3] * v[3]
\* The length by which self, moved by v, and other still overlap on axis k,
\* times v[3] * sqrt(d2).
OverlapAfter(v, k) ==
    LET n == TestedAxis(k)
        shift == n[1] * v[1] + n[2] * v[2]
        aMin == v[3] * ProjSelf(k).min + shift
        aMax == v[3] * ProjSelf(k).max + shift
        bMin == v[3] * ProjOther(k).min
        bMax == v[3] * ProjOther(k).max
    IN (IF aMax < bMax THEN aMax ELSE bMax) - (IF aMin > bMin THEN aMin ELSE bMin)

\* C1: getMinkowskiSum returns a polygon of |A| * |B| points whose point at
\* n * |B| + m is A.points[n] + B.points[m], for every n and m.
C1_MinkowskiSumPairwise ==
    pc = "getMinkowskiSum" =>
        /\ ret.kind = "Polygon"
        /\ Len(ret.val) = Len(selfPts) * Len(otherPts)
        /\ \A n \in 0..(Len(selfPts) - 1), m \in 0..(Len(otherPts) - 1) :
              ret.val[n * Len(otherPts) + m + 1]
                 = <<selfPts[n + 1][1] + otherPts[m + 1][1],
                     selfPts[n + 1][2] + otherPts[m + 1][2]>>

\* C1's case: a sum of polygons of different sizes, whose last entry is not zero.
C1_Witness ==
    /\ pc = "getMinkowskiSum"
    /\ Len(selfPts) = 3 /\ Len(otherPts) = 2
    /\ selfPts[3] # <<0, 0>> /\ otherPts[2] # <<0, 0>>
    /\ ret.val[6] # ret.val[5]

\* C2: intersectsPolygon returns None if and only if some tested axis
\* separates the two projections (aMin > bMax or bMin > aMax).
C2_NoneIffSeparated ==
    pc = "intersectsPolygon" =>
        ((ret = None) <=> (\E k \in 1..NumAxes : SeparatedOn(k)))

\* C3: the vector intersectsPolygon returns for two convex polygons separates
\* them: with self moved by it, the projections on the winning axis overlap by
\* no positive length.
C3_VectorSeparates ==
    (pc = "intersectsPolygon" /\ ret.kind = "vector"
        /\ IsConvex(selfPts) /\ IsConvex(otherPts)) =>
        \A k \in 1..NumAxes : IsWinner(k) => OverlapAfter(ret.val, k) <= 0

\* C8: intersectsPolygon and getMinkowskiSum leave the point arrays of self
\* and of other as they were, in content and in order.
C8_OperandsUnchanged == [][selfPts' = selfPts /\ otherPts' = otherPts]_vars

\* C8's case: intersectsPolygon went through every edge of two triangles,
\* negating and normalising a normal with two non-zero components.
C8_Witness ==
    /\ pc = "intersectsPolygon"
    /\ ret.kind = "vector"
    /\ Len(selfPts) = 3 /\ Len(otherPts) = 3
    /\ ret.val[1] # 0 /\ ret.val[2] # 0

\* C9: a vector intersectsPolygon returns is -overlap * axis (self's minimum
\* below other's) or +overlap * axis on the axis with the smallest overlap
\* min(aMax, bMax) - max(aMin, bMin) of all axes whose overlap is a number,
\* the first in test order among equals, and its length is that overlap.
C9_ShallowestAxisFirst ==
    (pc = "intersectsPolygon" /\ ret.kind = "vector") =>
        \E k \in 1..NumAxes : IsWinner(k) /\ IsMTVOn(ret.val, k)

\* C9's case: the winning axis is not the first one tested, a later axis ties
\* with it, and the vector points against the axis.
C9_Witness ==
    /\ pc = "intersectsPolygon"
    /\ ret.kind = "vector"
    /\ \E k \in 2..NumAxes :
          /\ IsWinner(k)
          /\ OverlapRaw(k) > 0
          /\ ProjSelf(k).min < ProjOther(k).min
          /\ \E j \in (k + 1)..NumAxes :
                IsNumber(j) /\ ~OverlapLess(k, j) /\ TestedAxis(j) # TestedAxis(k)

\* C10: with a zero-length edge in either polygon, intersectsPolygon ends in a
\* DegenerateAxis failure, never in None or a vector.
C10_ZeroEdgeFails ==
    (pc = "intersectsPolygon" /\ (HasZeroEdge(selfPts) \/ HasZeroEdge(otherPts))) =>
        ret.kind = "raise"

\* C4: for at least three non-collinear points the hull's vertices are input
\* points, none twice, they are exactly the extreme points of the input, and
\* every input point lies in the returned polygon.
C4_HullIsExtremePoints ==
    (pc = "getConvexHull" /\ ThreeNonCollinear(Range(selfPts))) =>
        /\ Range(ret.val) \subseteq Range(selfPts)
        /\ Cardinality(Range(ret.val)) = Len(ret.val)
        /\ Range(ret.val) = ExtremePoints(Range(selfPts))
        /\ \A p \in Range(selfPts) : InConvexHullOf(p, Range(ret.val))

\* C5: the hull of a hull has the same vertex set as the hull.
C5_HullIdempotent ==
    pc = "hullOfHull" => Range(ret.val) = Range(prev.val)

\* C6: A.getMinkowskiHull(B) and B.getMinkowskiHull(A) have the same vertex set.
C6_MinkowskiHullCommutes ==
    pc = "swappedMinkowskiHull" => Range(ret.val) = Range(prev.val)

\* C6's case: the two sums list their points in different orders, one of them
\* is rounded by the conversion to float32, and the hull is a quadrilateral.
C6_Witness ==
    /\ pc = "swappedMinkowskiHull"
    /\ GetMinkowskiSum(selfPts, otherPts).local # GetMinkowskiSum(otherPts, selfPts).local
    /\ Len(ret.val) = 4
    /\ \E p \in Range(GetMinkowskiSum(selfPts, otherPts).local) : F32(p[1]) # p[1]

\* C7: mirror with axis_direction (0, 0) returns without error and leaves the
\* receiver's points as they were.
C7_ZeroAxisIsNoOp ==
    [][(pc = "ready" /\ arg.dir.v = <<0, 0>>) =>
          (ret'.kind = "None" /\ selfPts' = selfPts)]_vars

=============================================================================
